---- MODULE Spec2Model ----
(***************************************************************************)
(* A model of the xdebug trace parser of src/src/lib.rs: the read loop of  *)
(* parse_xtrace_file, the line classification by RE_SET, the record        *)
(* decoders and the correlation of entry and exit lines in process_line.   *)
(*                                                                         *)
(* A line is the sequence of its tab-delimited fields.  A field is a       *)
(* record [k, t, v]: k is the lexical shape the regular expressions of     *)
(* LineRegex::regex_str can tell apart, t the way a digit string is        *)
(* written, v the value or an index of the text.                           *)
(***************************************************************************)
EXTENDS Integers, Sequences, FiniteSets, TLC

\* ------------------------------------------------------------------ bounds
\* lines of a trace file with function entries and exits
MaxLines == 4
\* lines of a trace file made of header lines
MaxHdrLines == 3
\* invocation identifiers 1..MaxId
MaxId == 2
\* reads that fail and are followed by a read that works
MaxErrs == 1
\* lines of a trace file of lines that fit the patterns in unusual ways
MaxShapeLines == 3

\* ------------------------------------------------------------------ fields
\* a digit string \d+ written as the canonical decimal of n
Num(n) == [k |-> "num", t |-> "dec", v |-> n]
\* a digit string with a leading zero: "0" followed by the decimal of n
ZNum(n) == [k |-> "num", t |-> "zdec", v |-> n]
\* a digit string whose value is above u32::MAX (4294967296 and up)
BigNum == [k |-> "num", t |-> "big", v |-> 0]
\* a float \d+\.\d+ : the text "0.00n"
Flt(n) == [k |-> "flt", t |-> "dec", v |-> n]
\* text that matches none of the shapes below and has no digit at its start
\* (Txt(0) is the empty text)
Txt(n) == [k |-> "txt", t |-> "dec", v |-> n]
\* what is left of the float "0.00n" after its leading digits: ".00n"
Frac(n) == [k |-> "frac", t |-> "dec", v |-> n]
\* text that contains "Version: X.Y.Z", the n-th version triple
VerText(n) == [k |-> "ver", t |-> "dec", v |-> n]
\* the text "File format: " followed by the digit string d
FmtText(d) == [k |-> "fmt", t |-> d.t, v |-> d.v]
\* the text "TRACE START [T]", T the n-th timestamp
StartText(n) == [k |-> "start", t |-> "dec", v |-> n]
\* the text "TRACE END [T]"
EndText(n) == [k |-> "end", t |-> "dec", v |-> n]
\* white space followed by the float "0.00n"
PenText(n) == [k |-> "pen", t |-> "dec", v |-> n]

\* Option<T>
None == <<>>
Some(x) == <<x>>

Min(S) == CHOOSE x \in S : \A y \in S : x <= y
Max(S) == CHOOSE x \in S : \A y \in S : y <= x

\* the field is \d+ from its first to its last character
IsDigits(f) == f.k = "num"
\* the field starts with \d+ (a float starts with its integer part)
StartsWithDigits(f) == f.k \in {"num", "flt"}
\* the leading \d+ of such a field
DigitPrefix(f) == IF f.k = "num" THEN f ELSE Num(0)
\* what follows the leading \d+ in the field, as a sequence of fields
DigitRest(f) == IF f.k = "num" THEN <<>> ELSE <<Frac(f.v)>>
IsFloat(f) == f.k = "flt"

\* str::parse::<u32>: fails on a digit string above u32::MAX
ParseU32Fails(d) == d.t = "big"
ParseU32(d) == d.v
\* str::parse::<f64> of \d+\.\d+ : thousandths
ParseF64(f) == f.v

\* ------------------------------------------------------- line patterns
\* fault seeded for C12: the version pattern anchored at the start of the line
MatchVersion_anchored(l) == Len(l) >= 1 /\ l[1].k = "ver"

\* LineRegex::Version is not anchored: the text may stand in any field
MatchVersion(l) == \E i \in 1..Len(l) : l[i].k = "ver"
MatchFormat(l) == Len(l) >= 1 /\ l[1].k = "fmt"
MatchStart(l) == Len(l) >= 1 /\ l[1].k = "start"

\* fault seeded for C14: the type tag is any digit string
TypeAfter_any_digits(l, a) == IsDigits(l[a + 1])

\* \t(?P<fn_type>[01])\t after the field a
TypeAfter(l, a) == l[a + 1] \in {Num(0), Num(1)}
\* \t(?P<line_num>\d+)\t(?P<arg_num>\d+) after the field c
CountsAfter(l, c) == IsDigits(l[c + 1]) /\ StartsWithDigits(l[c + 2])

\* The ways LineRegex::FunctionEntry divides the fields of l: fn_name is the
\* fields 6..s[1], fn_type the field s[1]+1, inc_file_name the fields
\* s[1]+2..s[2], file_name the fields s[2]+1..s[3], line_num the field
\* s[3]+1 and arg_num the leading digits of the field s[3]+2.
EntrySplits(l) ==
    IF Len(l) < 11 THEN {}
    ELSE IF ~(IsDigits(l[1]) /\ IsDigits(l[2]) /\ l[3] = Num(0)
              /\ IsFloat(l[4]) /\ IsDigits(l[5])) THEN {}
    ELSE UNION {UNION {{<<a, b, c>> :
                          c \in {x \in (b + 1)..(Len(l) - 2) : CountsAfter(l, x)}} :
                    b \in (a + 2)..(Len(l) - 3)} :
                a \in {x \in 6..(Len(l) - 5) : TypeAfter(l, x)}}

\* The division the regex engine reports: each .* is greedy, the leftmost
\* group first.
EntrySplit(l) ==
    LET S == EntrySplits(l)
        a == Max({s[1] : s \in S})
        b == Max({s[2] : s \in {x \in S : x[1] = a}})
        c == Max({s[3] : s \in {x \in S : x[1] = a /\ x[2] = b}})
    IN  <<a, b, c>>

MatchFunctionEntry(l) == EntrySplits(l) # {}

MatchFunctionExit(l) ==
    /\ Len(l) >= 5
    /\ IsDigits(l[1]) /\ IsDigits(l[2]) /\ l[3] = Num(1)
    /\ IsFloat(l[4]) /\ StartsWithDigits(l[5])

MatchPenultimate(l) == Len(l) >= 2 /\ l[1].k = "pen" /\ StartsWithDigits(l[2])
MatchEnd(l) == Len(l) >= 1 /\ l[1].k = "end"

\* RE_SET.matches(line): the indexes of the patterns that match, in the
\* order the set was built
RE_SET_matches(l) ==
    {i \in 0..6 :
        \/ i = 0 /\ MatchVersion(l)
        \/ i = 1 /\ MatchFormat(l)
        \/ i = 2 /\ MatchStart(l)
        \/ i = 3 /\ MatchFunctionEntry(l)
        \/ i = 4 /\ MatchFunctionExit(l)
        \/ i = 5 /\ MatchPenultimate(l)
        \/ i = 6 /\ MatchEnd(l)}

\* ------------------------------------------------------------- decoders
\* fault seeded for C7: a second format is let through
SUPPORTED_FILE_FORMATS_and_5 == {Num(4), Num(5)}

SUPPORTED_FILE_FORMATS == {Num(4)}

\* the text of fields joined by tabs; one empty field is the empty text
TextOf(s) == IF s = <<Txt(0)>> THEN <<>> ELSE s

XtraceVersionRecord_new(l) ==
    LET i == Min({j \in 1..Len(l) : l[j].k = "ver"})
    IN  [version |-> l[i].v, rec_type |-> "Version"]

\* the start time is a fixed text, whatever the line holds: index 0 stands
\* for "Sat Dec  3 18:01:30 PST 2022", which no line of a trace file holds
XtraceStartTimeRecord_new(l) ==
    [start_time |-> 0, rec_type |-> "StartTime"]

\* the digit string after "File format: "
FormatCapture(l) == [k |-> "num", t |-> l[1].t, v |-> l[1].v]

\* fault seeded for C17: the format is not looked up among the supported
XtraceFmtRecord_new_unchecked(l) == ParseU32Fails(FormatCapture(l))

XtraceFmtRecord_new_panics(l) ==
    \/ FormatCapture(l) \notin SUPPORTED_FILE_FORMATS
    \/ ParseU32Fails(FormatCapture(l))

XtraceFmtRecord_new(l) ==
    [format |-> ParseU32(FormatCapture(l)), rec_type |-> "Format"]

\* fault seeded for C13: a memory figure that does not fit is taken as 0
XtraceEntryRecord_new_panics_but_mem(l) ==
    LET s == EntrySplit(l)
    IN  \/ ParseU32Fails(l[1])
        \/ ParseU32Fails(l[2])
        \/ ParseU32Fails(l[s[3] + 1])
        \/ ParseU32Fails(DigitPrefix(l[s[3] + 2]))

XtraceEntryRecord_new_panics(l) ==
    LET s == EntrySplit(l)
    IN  \/ ParseU32Fails(l[1])
        \/ ParseU32Fails(l[2])
        \/ ParseU32Fails(l[5])
        \/ ParseU32Fails(l[s[3] + 1])
        \/ ParseU32Fails(DigitPrefix(l[s[3] + 2]))

XtraceEntryRecord_new(l) ==
    LET s == EntrySplit(l)
    IN  [rec_type |-> "Entry",
         level |-> ParseU32(l[1]),
         fn_num |-> ParseU32(l[2]),
         time_idx |-> ParseF64(l[4]),
         mem_usage |-> ParseU32(l[5]),
         fn_name |-> TextOf(SubSeq(l, 6, s[1])),
         fn_type |-> l[s[1] + 1].v,
         inc_file_name |-> TextOf(SubSeq(l, s[1] + 2, s[2])),
         file_name |-> TextOf(SubSeq(l, s[2] + 1, s[3])),
         line_num |-> ParseU32(l[s[3] + 1]),
         arg_num |-> ParseU32(DigitPrefix(l[s[3] + 2])),
         args |-> TextOf(DigitRest(l[s[3] + 2]) \o SubSeq(l, s[3] + 3, Len(l)))]

XtraceExitRecord_new_panics(l) ==
    \/ ParseU32Fails(l[1])
    \/ ParseU32Fails(l[2])
    \/ ParseU32Fails(DigitPrefix(l[5]))

XtraceExitRecord_new(l) ==
    [rec_type |-> "Exit",
     level |-> ParseU32(l[1]),
     fn_num |-> ParseU32(l[2]),
     time_idx |-> ParseF64(l[4]),
     mem_usage |-> ParseU32(DigitPrefix(l[5]))]

\* ---------------------------------------------------------- process_line
\* fault seeded for C3: the record is put at the front
add_fn_record_front(run, func) == [run EXCEPT !.fn_records = <<func>> \o @]

add_fn_record(run, func) == [run EXCEPT !.fn_records = Append(@, func)]

\* fault seeded for C6: a key already in the map keeps its value
HashMap_insert_keep_first(m, key, val) ==
    [x \in DOMAIN m \cup {key} |-> IF x \in DOMAIN m THEN m[x] ELSE val]

\* HashMap::insert: the value stored for the key is the one given
HashMap_insert(m, key, val) ==
    [x \in DOMAIN m \cup {key} |-> IF x = key THEN val ELSE m[x]]

\* fault seeded for C1: the entry is stored under its level
process_line_entry_by_level(st, l) ==
    LET record == XtraceEntryRecord_new(l)
    IN  [st EXCEPT !.entry_cache = HashMap_insert(@, record.level, record)]

\* fault seeded for C20: an entry also opens a record, without an exit half
process_line_entry_opens(st, l) ==
    LET record == XtraceEntryRecord_new(l)
    IN  [st EXCEPT !.entry_cache = HashMap_insert(@, record.fn_num, record),
                   !.run = add_fn_record(@, [fn_num |-> record.fn_num,
                                             entry_record |-> Some(record),
                                             exit_record |-> None])]

\* the arm "3 =>": a function entry is stored under its fn_num
process_line_entry(st, l) ==
    LET record == XtraceEntryRecord_new(l)
    IN  [st EXCEPT !.entry_cache = HashMap_insert(@, record.fn_num, record)]

\* fault seeded for C4: an exit that finds no entry is kept as a record
\* without an entry half
process_line_exit_orphan(st, l) ==
    LET exit_record == XtraceExitRecord_new(l)
    IN  [st EXCEPT !.run = add_fn_record(@,
            [fn_num |-> exit_record.fn_num,
             entry_record |-> IF exit_record.fn_num \in DOMAIN st.entry_cache
                              THEN Some(st.entry_cache[exit_record.fn_num])
                              ELSE None,
             exit_record |-> Some(exit_record)])]

\* fault seeded for C16: the entry is looked up under the exit's level
process_line_exit_by_level(st, l) ==
    LET exit_record == XtraceExitRecord_new(l)
    IN  IF exit_record.level \in DOMAIN st.entry_cache
        THEN [st EXCEPT !.run = add_fn_record(@,
                 [fn_num |-> exit_record.fn_num,
                  entry_record |-> Some(st.entry_cache[exit_record.level]),
                  exit_record |-> Some(exit_record)])]
        ELSE st

\* the arm "4 =>": entry_cache.get leaves the cache as it is
process_line_exit(st, l) ==
    LET exit_record == XtraceExitRecord_new(l)
    IN  IF exit_record.fn_num \in DOMAIN st.entry_cache
        THEN [st EXCEPT !.run = add_fn_record(@,
                 [fn_num |-> exit_record.fn_num,
                  entry_record |-> Some(st.entry_cache[exit_record.fn_num]),
                  exit_record |-> Some(exit_record)])]
        ELSE st

\* fault seeded for C8: a line that matches nothing resets the cache
process_line_no_match_clears(st, l) == [st EXCEPT !.entry_cache = <<>>]

\* "No matches for line": the line is reported and left out
process_line_no_match(st, l) == st

\* fault seeded for C18: the line ends the trace and the cache is dropped
process_line_discard_flushes(st, l) == [st EXCEPT !.entry_cache = <<>>]

\* the arms "5 => {}" and "6 => {}": the line is matched and nothing is done
process_line_discard(st, l) == st

\* the decoder of the line's kind panics (unwrap, expect, panic!)
process_line_panics(l) ==
    LET matches == RE_SET_matches(l)
    IN  /\ matches # {}
        /\ \/ Min(matches) = 1 /\ XtraceFmtRecord_new_panics(l)
           \/ Min(matches) = 3 /\ XtraceEntryRecord_new_panics(l)
           \/ Min(matches) = 4 /\ XtraceExitRecord_new_panics(l)

\* st = [run, entry_cache]: the two things process_line may change
process_line(st, l) ==
    LET matches == RE_SET_matches(l)
    IN  IF matches = {} THEN process_line_no_match(st, l)
        ELSE LET idx == Min(matches)
             IN  CASE idx = 0 ->
                        [st EXCEPT !.run.version = Some(XtraceVersionRecord_new(l))]
                   [] idx = 1 ->
                        [st EXCEPT !.run.format = Some(XtraceFmtRecord_new(l))]
                   [] idx = 2 ->
                        [st EXCEPT !.run.start = Some(XtraceStartTimeRecord_new(l))]
                   [] idx = 3 -> process_line_entry(st, l)
                   [] idx = 4 -> process_line_exit(st, l)
                   [] idx = 5 -> process_line_discard(st, l)
                   [] idx = 6 -> process_line_discard(st, l)

\* ------------------------------------------------------------ the input
\* 0 \t id \t 0 \t 0.00id \t 1000 \t name \t 1 \t inc.php \t main.php \t 10 \t 0 \t
EntryLine(level, id) ==
    <<Num(level), Num(id), Num(0), Flt(id), Num(1000), Txt(id), Num(1),
      Txt(8), Txt(9), Num(10), Num(0), Txt(0)>>
\* level \t id \t 1 \t 0.00(id+2) \t 1100
ExitLine(id) == <<Num((id + 1) % 2), Num(id), Num(1), Flt(id + 2), Num(1100)>>
\* an entry line whose memory field is above u32::MAX
OverflowLine == [EntryLine(0, 1) EXCEPT ![5] = BigNum]
\* "garbage line with no structure"
GarbageLine == <<Txt(7)>>
FormatLine(d) == <<FmtText(d)>>
StartLine(n) == <<StartText(n)>>
VersionLine(n) == <<VerText(n)>>
EndLine == <<EndText(1)>>
PenultimateLine == <<PenText(9), Num(1200)>>

Ids == 1..MaxId

\* a trace of calls: call 1 entered at depth 0 or 1, the others at depth 1,
\* the exits, and a line that cannot be decoded
CallLines ==
    {EntryLine(0, 1)}
        \cup {EntryLine(1, id) : id \in Ids}
        \cup {ExitLine(id) : id \in Ids}
        \cup {OverflowLine}

\* a trace of header lines around one call
HeaderLines ==
    {FormatLine(Num(4)), FormatLine(Num(5)), FormatLine(ZNum(4)),
     StartLine(1), StartLine(2), VersionLine(1), VersionLine(2), EndLine,
     PenultimateLine, GarbageLine, EntryLine(0, 1), ExitLine(1)}

\* an entry line whose argument text holds "Version: X.Y.Z"
VersionedEntryLine == [EntryLine(0, 1) EXCEPT ![12] = VerText(3)]
\* an exit line followed by a tab and "Version: X.Y.Z"
VersionedExitLine == ExitLine(1) \o <<VerText(3)>>
\* "File format: 5", a tab and "Version: X.Y.Z"
VersionedFormatLine == <<FmtText(Num(5)), VerText(3)>>
\* an entry line whose type tag is t
TagLine(t) == [EntryLine(0, 1) EXCEPT ![7] = Num(t)]
\* entry and exit lines with the i-th field above u32::MAX
EntryOverflowLine(i) == [EntryLine(0, 1) EXCEPT ![i] = BigNum]
ExitOverflowLine(i) == [ExitLine(1) EXCEPT ![i] = BigNum]
\* an entry line for call 1 with two arguments, the fields of args
ArgsLine(args) == [SubSeq(EntryLine(0, 1), 1, 11) EXCEPT ![11] = Num(2)] \o args
\* argument texts: two words; two integers; 1, two words and two integers
ArgTexts ==
    {<<Txt(5), Txt(6)>>, <<Num(7), Num(8)>>,
     <<Num(1), Txt(5), Txt(6), Num(3), Num(4)>>}

\* a trace of lines that fit more than one pattern, or one pattern in more
\* than one way, or a pattern and not its decoder
ShapeLines ==
    {EntryLine(0, 1), ExitLine(1), VersionedEntryLine, VersionedExitLine,
     VersionedFormatLine, TagLine(0), TagLine(2)}
        \cup {ArgsLine(a) : a \in ArgTexts}
        \cup {EntryOverflowLine(i) : i \in {1, 2, 5, 10, 11}}
        \cup {ExitOverflowLine(i) : i \in {1, 2, 5}}

\* ------------------------------------------------------------ the state
VARIABLES
    pc,           \* where parse_xtrace_file is: "open", "read" (before
                  \* read_until), "match" (on its result), and how it ended:
                  \* "returned", "io_error", "panicked"
    file_run,     \* the XtraceFileRecord being filled
    entry_cache,  \* fn_num -> the entry record last seen under it
    line,         \* the line buffer read_until appends to
    line_number,
    result,       \* what read_until returned: "Ok" (size > 0), "Ok0", "Err"
    ret,          \* the value returned: None until "returned"
    rest,         \* the source: the fields of the current line not read yet
    nread,        \* the source: the lines begun so far
    errs,         \* the source: the passing read failures so far
    stuck,        \* the source: every read of it fails
    corpus,       \* the source: the lines it may hold and how many
    fed,          \* history: the lines of the source begun so far, in order
    hist          \* history: the texts given to process_line, in order

vars == <<pc, file_run, entry_cache, line, line_number, result, ret,
          rest, nread, errs, stuck, corpus, fed, hist>>

source == <<rest, nread, errs, stuck, fed>>
parsed == <<file_run, entry_cache, line_number, hist>>

\* the XtraceFileRecord parse_xtrace_file starts from
EmptyRun ==
    [id |-> "uuid", start |-> None, format |-> None, version |-> None,
     fn_records |-> <<>>]

InitWith(c) ==
    /\ pc = "open"
    /\ file_run = EmptyRun
    /\ entry_cache = <<>>
    /\ line = <<>>
    /\ line_number = 1
    /\ result = "none"
    /\ ret = None
    /\ rest = <<>>
    /\ nread = 0
    /\ errs = 0
    /\ stuck = FALSE
    /\ corpus = c
    /\ fed = <<>>
    /\ hist = <<>>

Init == InitWith([lines |-> CallLines, len |-> MaxLines])
InitHdr == InitWith([lines |-> HeaderLines, len |-> MaxHdrLines])
InitShape == InitWith([lines |-> ShapeLines, len |-> MaxShapeLines])

\* File::open(file)? : the file opens
OpenOk ==
    /\ pc = "open"
    /\ pc' = "read"
    /\ UNCHANGED <<parsed, line, result, ret, source, corpus>>

\* File::open(file)? : the error is returned
OpenErr ==
    /\ pc = "open"
    /\ pc' = "io_error"
    /\ UNCHANGED <<parsed, line, result, ret, source, corpus>>

\* the lines the next read may complete
NextLines ==
    IF rest # <<>> THEN {rest}
    ELSE IF nread < corpus.len THEN corpus.lines ELSE {}

\* read_until(0xA, &mut line) appends a line, or what is left of one
ReadOk ==
    /\ pc = "read" /\ ~stuck
    /\ \E l \in NextLines :
          /\ line' = line \o l
          /\ nread' = IF rest = <<>> THEN nread + 1 ELSE nread
          /\ fed' = IF rest = <<>> THEN Append(fed, l) ELSE fed
    /\ rest' = <<>>
    /\ result' = "Ok"
    /\ pc' = "match"
    /\ UNCHANGED <<parsed, ret, errs, stuck, corpus>>

\* read_until finds the source exhausted
ReadEof ==
    /\ pc = "read" /\ ~stuck
    /\ rest = <<>>
    /\ result' = "Ok0"
    /\ pc' = "match"
    /\ UNCHANGED <<parsed, line, ret, source, corpus>>

\* read_until fails once: before any byte of the line, or after the first
\* field of it, which stays in the buffer
ReadErr ==
    /\ pc = "read" /\ ~stuck
    /\ errs < MaxErrs
    /\ \E k \in 0..1 :
          IF k = 0
          THEN UNCHANGED <<line, rest, nread, fed>>
          ELSE \E l \in {x \in NextLines : Len(x) > 1} :
                  /\ line' = Append(line, l[1])
                  /\ rest' = Tail(l)
                  /\ nread' = IF rest = <<>> THEN nread + 1 ELSE nread
                  /\ fed' = IF rest = <<>> THEN Append(fed, l) ELSE fed
    /\ errs' = errs + 1
    /\ result' = "Err"
    /\ pc' = "match"
    /\ UNCHANGED <<parsed, ret, stuck, corpus>>

\* read_until fails and will fail at every later call: the path names a
\* directory, which opens and then refuses every read
ReadErrForever ==
    /\ pc = "read"
    /\ stuck \/ (nread = 0 /\ errs = 0)
    /\ stuck' = TRUE
    /\ result' = "Err"
    /\ pc' = "match"
    /\ UNCHANGED <<parsed, line, ret, rest, nread, errs, fed, corpus>>

\* fault seeded for C5: an entry still pending at the end is returned as a
\* record without an exit half
ReturnValue_flush(run, cache) ==
    IF DOMAIN cache = {} THEN run
    ELSE add_fn_record(run, [fn_num |-> Min(DOMAIN cache),
                             entry_record |-> Some(cache[Min(DOMAIN cache)]),
                             exit_record |-> None])

\* return Ok(file_run)
ReturnValue(run, cache) == run

\* Ok(size), size == 0
HandleEof ==
    /\ pc = "match" /\ result = "Ok0"
    /\ ret' = Some(ReturnValue(file_run, entry_cache))
    /\ pc' = "returned"
    /\ UNCHANGED <<parsed, line, result, source, corpus>>

\* Ok(size), size > 0: process_line, line_number += 1, line.clear()
HandleLine ==
    /\ pc = "match" /\ result = "Ok"
    /\ ~process_line_panics(line)
    /\ LET st == process_line([run |-> file_run, entry_cache |-> entry_cache], line)
       IN  /\ file_run' = st.run
           /\ entry_cache' = st.entry_cache
    /\ hist' = Append(hist, line)
    /\ line_number' = line_number + 1
    /\ line' = <<>>
    /\ pc' = "read"
    /\ UNCHANGED <<result, ret, source, corpus>>

\* Ok(size), size > 0: a decoder called by process_line panics
HandlePanic ==
    /\ pc = "match" /\ result = "Ok"
    /\ process_line_panics(line)
    /\ hist' = Append(hist, line)
    /\ pc' = "panicked"
    /\ UNCHANGED <<file_run, entry_cache, line_number, line, result, ret,
                   source, corpus>>

\* fault seeded for C19: the buffer is cleared after a failed read too
HandleErr_clears ==
    /\ pc = "match" /\ result = "Err"
    /\ pc' = "read"
    /\ line' = <<>>
    /\ UNCHANGED <<parsed, result, ret, source, corpus>>

\* Err(e): the error is printed and the loop goes on
HandleErr ==
    /\ pc = "match" /\ result = "Err"
    /\ pc' = "read"
    /\ UNCHANGED <<parsed, line, result, ret, source, corpus>>

Next ==
    \/ OpenOk
    \/ OpenErr
    \/ ReadOk
    \/ ReadEof
    \/ ReadErr
    \/ ReadErrForever
    \/ HandleEof
    \/ HandleLine
    \/ HandlePanic
    \/ HandleErr

Spec == Init /\ [][Next]_vars
SpecHdr == InitHdr /\ [][Next]_vars
\* the one thread of the parse keeps running while it has a step to take
FairSpec == InitHdr /\ [][Next]_vars /\ WF_vars(Next)
SpecShape == InitShape /\ [][Next]_vars

\* ------------------------------------------------- reading the history
\* the kind process_line takes a line for: the first index that matches,
\* -1 when none does
KindOf(l) ==
    LET matches == RE_SET_matches(l)
    IN  IF matches = {} THEN 0 - 1 ELSE Min(matches)
IdOf(l) == ParseU32(l[2])

\* what the claims read off each line of a history h: its kind, and for an
\* entry or exit line its identifier and the record it decodes to
Digest(h) ==
    [i \in 1..Len(h) |->
        LET kind == KindOf(h[i])
        IN  [kind |-> kind,
             id |-> IF kind \in {3, 4} THEN IdOf(h[i]) ELSE 0,
             rec |-> IF kind = 3 THEN Some(XtraceEntryRecord_new(h[i]))
                     ELSE IF kind = 4 THEN Some(XtraceExitRecord_new(h[i]))
                     ELSE None]]

IsEntry(d, i) == d[i].kind = 3
IsExit(d, i) == d[i].kind = 4
EntryLinesIn(d) == {i \in DOMAIN d : IsEntry(d, i)}
EntryIdx(d, n) == {i \in DOMAIN d : IsEntry(d, i) /\ d[i].id = n}
ExitIdx(d, n) == {j \in DOMAIN d : IsExit(d, j) /\ d[j].id = n}
\* the exit line j follows an entry line of its identifier
HasEntryBefore(d, j) == \E i \in EntryIdx(d, d[j].id) : i < j
\* the last entry line of j's identifier before j
LastEntryBefore(d, j) == Max({i \in EntryIdx(d, d[j].id) : i < j})
\* the exit lines that follow an entry line of their identifier, in order
MatchedExits(d) ==
    LET J == {j \in DOMAIN d : IsExit(d, j) /\ HasEntryBefore(d, j)}
    IN  [k \in 1..Cardinality(J) |->
            CHOOSE j \in J : Cardinality({x \in J : x <= j}) = k]
RecordsOf(run, n) == {k \in 1..Len(run.fn_records) : run.fn_records[k].fn_num = n}

\* the lines process_line was given and came back from
Processed == IF pc = "panicked" THEN SubSeq(hist, 1, Len(hist) - 1) ELSE hist

\* ------------------------------------------------------------ the claims
\* the fields the entry pattern fixes by position, read off the line
EntryFieldsAt(e, l) ==
    /\ e.level = l[1].v /\ e.fn_num = l[2].v
    /\ e.time_idx = l[4].v /\ e.mem_usage = l[5].v
    /\ (Len(l) = 11 \/ (Len(l) = 12 /\ ~StartsWithDigits(l[12])))
          => /\ e.fn_name = TextOf(<<l[6]>>) /\ e.fn_type = l[7].v
             /\ e.inc_file_name = TextOf(<<l[8]>>)
             /\ e.file_name = TextOf(<<l[9]>>)
             /\ e.line_num = l[10].v /\ e.arg_num = l[11].v
ExitFieldsAt(x, l) ==
    /\ x.level = l[1].v /\ x.fn_num = l[2].v
    /\ x.time_idx = l[4].v /\ x.mem_usage = DigitPrefix(l[5]).v

\* line i is the one entry line and line j the one exit line of their
\* identifier, and the entry comes first
OnePair(d, i, j) ==
    /\ IsEntry(d, i) /\ IsExit(d, j) /\ i < j
    /\ d[i].id = d[j].id
    /\ EntryIdx(d, d[i].id) = {i}
    /\ ExitIdx(d, d[i].id) = {j}

\* C1: when identifier N is in one entry line and in one later exit line,
\* the TraceFile returned holds exactly one record with fn_num N, and its
\* entry and exit halves hold the fields decoded from those two lines.
C1_PairYieldsOneRecord ==
    pc = "returned" =>
        LET d == Digest(hist)
        IN  \A i \in DOMAIN d, j \in DOMAIN d :
                OnePair(d, i, j) =>
                    LET R == RecordsOf(ret[1], d[i].id)
                    IN  /\ Cardinality(R) = 1
                        /\ \A k \in R :
                              LET r == ret[1].fn_records[k]
                              IN  /\ r.entry_record = d[i].rec
                                  /\ r.exit_record = d[j].rec
                                  /\ EntryFieldsAt(r.entry_record[1], hist[i])
                                  /\ ExitFieldsAt(r.exit_record[1], hist[j])

\* the parse returned a trace that held such a pair, other lines between
C1_Witness ==
    /\ pc = "returned"
    /\ LET d == Digest(hist)
       IN  \E i \in DOMAIN d, j \in DOMAIN d : OnePair(d, i, j) /\ i + 1 < j
    /\ Len(ret[1].fn_records) >= 1

\* C2: entries and exits are paired one to one: a matched exit takes its
\* entry out of the pending set, so a second exit line for N with no new
\* entry line for N adds no record, and the records are never more than the
\* entry lines processed.
C2_PairedOneToOne ==
    Len(file_run.fn_records) <= Cardinality(EntryLinesIn(Digest(Processed)))

\* C3: the records are in the order their exit lines were matched: the
\* sequence of record ids is the sequence of ids of the exit lines that
\* followed an entry line of their id; entry 1 (depth 0), entry 2 (depth 1),
\* exit 2, exit 1 gives two records, id 2 with entry depth 1, then id 1 with
\* entry depth 0.
NestedCalls == <<EntryLine(0, 1), EntryLine(1, 2), ExitLine(2), ExitLine(1)>>
C3_ExitOrder ==
    pc # "panicked" =>
        LET d == Digest(hist)
            M == MatchedExits(d)
        IN  /\ Len(file_run.fn_records) = Len(M)
            /\ \A k \in 1..Len(M) : file_run.fn_records[k].fn_num = d[M[k]].id
            /\ hist = NestedCalls =>
                  /\ Len(file_run.fn_records) = 2
                  /\ file_run.fn_records[1].fn_num = 2
                  /\ file_run.fn_records[1].entry_record[1].level = 1
                  /\ file_run.fn_records[2].fn_num = 1
                  /\ file_run.fn_records[2].entry_record[1].level = 0

\* the two nested calls were parsed and returned
C3_Witness ==
    /\ pc = "returned" /\ hist = NestedCalls
    /\ Len(ret[1].fn_records) = 2

\* C4: an exit line whose identifier was in no earlier entry line adds no
\* record and raises no error: the TraceFile and the cache are after the line
\* what they were before it, and the parse goes on to the next read.
UnmatchedExitAtHand ==
    /\ pc = "match" /\ result = "Ok"
    /\ KindOf(line) = 4 /\ ~XtraceExitRecord_new_panics(line)
    /\ EntryIdx(Digest(hist), IdOf(line)) = {}
C4_UnmatchedExitDropped ==
    [][UnmatchedExitAtHand =>
          /\ pc' = "read"
          /\ file_run' = file_run
          /\ entry_cache' = entry_cache]_vars

\* an unmatched exit was processed, a call was completed after it and the
\* parse returned
C4_Witness ==
    /\ pc = "returned"
    /\ LET d == Digest(hist)
       IN  \E j \in DOMAIN d :
              /\ IsExit(d, j) /\ \A i \in EntryIdx(d, d[j].id) : i > j
              /\ j < Len(hist)
    /\ Len(ret[1].fn_records) >= 1

\* the entry line i decodes to what no other entry line does
OnlyEntry(d, i) == \A x \in EntryLinesIn(d) : d[x].rec = d[i].rec => x = i
\* no record of run has the entry e
EntryAbsent(run, e) ==
    \A k \in 1..Len(run.fn_records) : run.fn_records[k].entry_record # e
\* the entry line i has no exit line of its identifier after it
Dangling(d, i) == IsEntry(d, i) /\ \A j \in ExitIdx(d, d[i].id) : j < i

\* C5: an entry line whose identifier is in no later exit line before the
\* end of input adds nothing to the TraceFile returned: no record holds that
\* entry, and the parse returns all the same.
C5_DanglingEntryDropped ==
    pc = "returned" =>
        /\ ret # None
        /\ LET d == Digest(hist)
           IN  \A i \in DOMAIN d :
                   (Dangling(d, i) /\ OnlyEntry(d, i))
                       => EntryAbsent(ret[1], d[i].rec)

\* the parse returned records, and an entry of the trace was left dangling
C5_Witness ==
    /\ pc = "returned"
    /\ Len(ret[1].fn_records) >= 1
    /\ LET d == Digest(hist)
       IN  \E i \in DOMAIN d : Dangling(d, i) /\ OnlyEntry(d, i)

\* the entry line i is followed by an entry line of its identifier with no
\* exit line of the identifier in between
Overwritten(d, i) ==
    /\ IsEntry(d, i)
    /\ \E i2 \in EntryIdx(d, d[i].id) :
          /\ i < i2
          /\ \A j \in ExitIdx(d, d[i].id) : ~(i < j /\ j < i2)

\* C6: of two entry lines for N processed before an exit line for N the
\* second replaces the first in the cache: the cache holds the latest entry
\* line of each identifier, the record an exit line makes holds the latest
\* entry line before it, and the replaced entry is in no record.
C6_LastWriteWins ==
    pc # "panicked" =>
        LET d == Digest(hist)
            M == MatchedExits(d)
        IN  /\ \A n \in DOMAIN entry_cache :
                  /\ EntryIdx(d, n) # {}
                  /\ Some(entry_cache[n]) = d[Max(EntryIdx(d, n))].rec
            /\ \A k \in 1..Len(M) :
                  k <= Len(file_run.fn_records) =>
                      file_run.fn_records[k].entry_record
                          = d[LastEntryBefore(d, M[k])].rec
            /\ \A i \in DOMAIN d :
                  (Overwritten(d, i) /\ OnlyEntry(d, i))
                      => EntryAbsent(file_run, d[i].rec)

\* two different entry lines for one identifier, then its exit line, and the
\* parse returned the record of the second
C6_Witness ==
    /\ pc = "returned"
    /\ LET d == Digest(hist)
       IN  \E i \in DOMAIN d, j \in DOMAIN d :
              /\ i + 1 < j /\ IsEntry(d, i) /\ IsEntry(d, i + 1)
              /\ d[i].rec # d[i + 1].rec /\ IsExit(d, j)
              /\ d[i].id = d[i + 1].id /\ d[i].id = d[j].id
              /\ ExitIdx(d, d[i].id) = {j}
              /\ Len(ret[1].fn_records) = 1
              /\ ret[1].fn_records[1].entry_record = d[i + 1].rec

IsFormatLine(l) == KindOf(l) = 1
IsStartLine(l) == KindOf(l) = 2

Replay(h) ==
    LET F[n \in 0..Len(h)] ==
            IF n = 0 THEN [run |-> EmptyRun, entry_cache |-> <<>>]
            ELSE process_line(F[n - 1], h[n])
    IN  F[Len(h)]
Matching(l) == RE_SET_matches(l) # {}

\* C8: a line that matches none of the seven patterns is skipped and does
\* not abort: the TraceFile and the cache are what the lines around it give
\* with the line left out.
C8_NoMatchSkipped ==
    /\ pc = "panicked" => Matching(hist[Len(hist)])
    /\ pc # "panicked" =>
          [run |-> file_run, entry_cache |-> entry_cache]
              = Replay(SelectSeq(hist, Matching))

\* an unclassifiable line between an entry and its exit, and the parse
\* returned the call
C8_Witness ==
    /\ pc = "returned"
    /\ \E i \in 2..(Len(hist) - 1) :
          /\ ~Matching(hist[i])
          /\ KindOf(hist[i - 1]) = 3 /\ KindOf(hist[i + 1]) = 4
    /\ Len(ret[1].fn_records) = 1

\* C9: for every finite line source the parse ends, by returning or by
\* aborting, also when reads of the source fail.
C9_ParseEnds == <>(pc \in {"returned", "io_error", "panicked"})

\* C10: after a line TRACE START [T] the start field holds T as written.
C10_StartVerbatim ==
    pc # "panicked" =>
        LET S == {i \in 1..Len(hist) : IsStartLine(hist[i])}
        IN  S # {} =>
                file_run.start =
                    Some([start_time |-> hist[Max(S)][1].v, rec_type |-> "StartTime"])

\* a line has been read and process_line is about to be given it
LineAtHand == pc = "match" /\ result = "Ok"
\* the step on which process_line is given the line and comes back
LineDone == LineAtHand /\ pc' = "read"
\* the call sequence and the cache are after the step what they were before
CallsKept ==
    /\ file_run'.fn_records = file_run.fn_records
    /\ entry_cache' = entry_cache

\* C11: each header field holds the value of the last header line of its kind:
\* a version, format or start line sets its own field to the value written in
\* the line, over whatever was there, and changes neither the other two
\* header fields, nor the call sequence, nor the cache.
C11_HeaderLastWins ==
    [][(LineDone /\ KindOf(line) \in {0, 1, 2}) =>
          /\ CallsKept
          /\ file_run'.version =
                IF KindOf(line) = 0
                THEN Some([version |-> line[Min({i \in 1..Len(line) : line[i].k = "ver"})].v,
                           rec_type |-> "Version"])
                ELSE file_run.version
          /\ file_run'.format =
                IF KindOf(line) = 1
                THEN Some([format |-> line[1].v, rec_type |-> "Format"])
                ELSE file_run.format
          /\ file_run'.start =
                IF KindOf(line) = 2
                THEN Some([start_time |-> line[1].v, rec_type |-> "StartTime"])
                ELSE file_run.start]_vars

\* C11 without the start line's own value: what holds of the code
HeaderLastWinsButStart ==
    [][(LineDone /\ KindOf(line) \in {0, 1, 2}) =>
          /\ CallsKept
          /\ file_run'.version =
                IF KindOf(line) = 0
                THEN Some([version |-> line[Min({i \in 1..Len(line) : line[i].k = "ver"})].v,
                           rec_type |-> "Version"])
                ELSE file_run.version
          /\ file_run'.format =
                IF KindOf(line) = 1
                THEN Some([format |-> line[1].v, rec_type |-> "Format"])
                ELSE file_run.format
          /\ KindOf(line) # 2 => file_run'.start = file_run.start
          /\ KindOf(line) = 2 => file_run'.start # None]_vars

\* the line holds the text "Version: X.Y.Z" somewhere
HoldsVersion(l) == \E i \in 1..Len(l) : l[i].k = "ver"
\* the version triple of the first such text
VersionIn(l) == l[Min({i \in 1..Len(l) : l[i].k = "ver"})].v

\* C12: a line that fits more than one pattern is taken for the first kind in
\* the order of RE_SET and only that kind's action runs: a line that is a
\* format header, a function entry or a function exit and also holds
\* "Version: X.Y.Z" is handled as a version line: it sets the version field
\* and changes nothing else, neither cache nor call sequence, and the
\* decoder of the later kind is not run.
C12_FirstPatternWins ==
    [][(/\ LineAtHand
        /\ HoldsVersion(line)
        /\ MatchFormat(line) \/ MatchFunctionEntry(line) \/ MatchFunctionExit(line))
        => /\ pc' = "read"
           /\ entry_cache' = entry_cache
           /\ file_run' =
                 [file_run EXCEPT
                     !.version = Some([version |-> VersionIn(line),
                                       rec_type |-> "Version"])]]_vars

\* an entry line holding a version text, then the exit line of its call, were
\* parsed: the version is set and no call is recorded
C12_Witness ==
    /\ pc = "returned"
    /\ Len(hist) >= 2
    /\ hist[1] = VersionedEntryLine /\ hist[2] = ExitLine(1)
    /\ ret[1].version = Some([version |-> 3, rec_type |-> "Version"])
    /\ ret[1].fn_records = <<>>

\* an entry line of twelve fields or an exit line, one of whose integer
\* fields (depth, identifier, memory, source line, argument count) is a
\* digit string above 2^32 - 1
BigField(l) ==
    \/ /\ MatchFunctionEntry(l) /\ ~HoldsVersion(l) /\ Len(l) <= 12
       /\ \E i \in {1, 2, 5, 10, 11} : l[i].t = "big"
    \/ /\ MatchFunctionExit(l) /\ ~HoldsVersion(l)
       /\ \E i \in {1, 2, 5} : l[i].t = "big"

\* C13: an entry or exit line with an integer field above 2^32 - 1 aborts
\* the parse: it is the last line process_line is given, the parse does not
\* go on past it and no TraceFile is returned.
C13_OverflowAborts ==
    \A i \in 1..Len(hist) :
        BigField(hist[i]) =>
            /\ i = Len(hist)
            /\ pc = "panicked"
            /\ ret = None

\* an entry line was stored, then an exit line with a memory figure that
\* does not fit stopped the parse
C13_Witness ==
    /\ pc = "panicked"
    /\ hist = <<EntryLine(0, 1), ExitOverflowLine(5)>>
    /\ DOMAIN entry_cache = {1}
    /\ ret = None

\* an entry line without argument text, well formed but for what its type
\* tag may hold: eleven fields, or twelve with the last one empty, integers
\* that fit, a digit string as the tag and no version text
PlainEntryButTag(l) ==
    /\ Len(l) \in {11, 12}
    /\ Len(l) = 12 => l[12] = Txt(0)
    /\ \A i \in {1, 2, 5, 7, 10, 11} : IsDigits(l[i]) /\ l[i].t # "big"
    /\ l[3] = Num(0) /\ IsFloat(l[4])
    /\ ~HoldsVersion(l)
TagOf(l) == l[7]

\* C14: the type tag of an entry line is decoded 0 -> Internal (0), 1 -> User
\* (1); an otherwise well-formed entry line whose tag holds another value
\* aborts the parse and is not skipped.
C14_TagAborts ==
    [][(LineAtHand /\ PlainEntryButTag(line)) =>
          IF TagOf(line) \in {Num(0), Num(1)}
          THEN /\ pc' = "read"
               /\ entry_cache'[IdOf(line)].fn_type = TagOf(line).v
          ELSE pc' = "panicked"]_vars

\* C14 as the code has it: such a line with another tag fits no pattern and
\* is skipped: the TraceFile and the cache stay as they are and the parse
\* goes on to the next read.
C14_TagSkipped ==
    [][(LineAtHand /\ PlainEntryButTag(line)) =>
          IF TagOf(line) \in {Num(0), Num(1)}
          THEN /\ pc' = "read"
               /\ entry_cache'[IdOf(line)].fn_type = TagOf(line).v
          ELSE /\ pc' = "read"
               /\ file_run' = file_run
               /\ entry_cache' = entry_cache]_vars

\* a line with tag 2 was passed over, and the call of tag 0 after it was
\* parsed and returned
C14_Witness ==
    /\ pc = "returned"
    /\ hist = <<TagLine(2), TagLine(0), ExitLine(1)>>
    /\ Len(ret[1].fn_records) = 1
    /\ ret[1].fn_records[1].entry_record[1].fn_type = 0

\* the entry record read off the fields of l by their positions: name the
\* 6th field, type tag the 7th, including file the 8th, calling file the 9th,
\* source line the 10th, argument count the 11th, the rest argument text
PositionalEntry(l) ==
    [rec_type |-> "Entry",
     level |-> l[1].v,
     fn_num |-> l[2].v,
     time_idx |-> l[4].v,
     mem_usage |-> l[5].v,
     fn_name |-> TextOf(<<l[6]>>),
     fn_type |-> l[7].v,
     inc_file_name |-> TextOf(<<l[8]>>),
     file_name |-> TextOf(<<l[9]>>),
     line_num |-> l[10].v,
     arg_num |-> DigitPrefix(l[11]).v,
     args |-> TextOf(DigitRest(l[11]) \o SubSeq(l, 12, Len(l)))]

\* C15: the fields decoded from an entry line are its tab-delimited fields in
\* their positions, whatever the argument text after the argument count
\* holds.
C15_FieldsByPosition ==
    [][(LineDone /\ KindOf(line) = 3) =>
          entry_cache'[IdOf(line)] = PositionalEntry(line)]_vars

\* C15 for the entry lines whose argument text is one field that does not
\* start with a digit, or is absent: what holds of the code
FieldsByPositionNoArgs ==
    [][(LineDone /\ KindOf(line) = 3 /\ Len(line) <= 12
        /\ (Len(line) = 12 => ~StartsWithDigits(line[12]))) =>
          entry_cache'[IdOf(line)] = PositionalEntry(line)]_vars

\* C16: every record of the call sequence has its entry half and its exit
\* half, and the record's fn_num, its entry's identifier and its exit's
\* identifier are equal.
C16_BothHalves ==
    \A k \in 1..Len(file_run.fn_records) :
        LET r == file_run.fn_records[k]
        IN  /\ r.entry_record # None
            /\ r.exit_record # None
            /\ r.fn_num = r.entry_record[1].fn_num
            /\ r.fn_num = r.exit_record[1].fn_num

\* the parse returned records of two calls, both entered before either exit
C16_Witness ==
    /\ pc = "returned"
    /\ Len(hist) = 4
    /\ KindOf(hist[1]) = 3 /\ KindOf(hist[2]) = 3
    /\ IdOf(hist[1]) # IdOf(hist[2])
    /\ Len(ret[1].fn_records) = 2
    /\ ret[1].fn_records[1].fn_num # ret[1].fn_records[2].fn_num

\* C17: while the parse has not aborted, the format field of the TraceFile
\* is absent or 4, and so is that of the TraceFile returned.
C17_FormatIsFour ==
    pc # "panicked" =>
        /\ file_run.format = None \/ file_run.format[1].format = 4
        /\ ret # None => (ret[1].format = None \/ ret[1].format[1].format = 4)

\* a format header was accepted and the parse returned its TraceFile
C17_Witness ==
    /\ pc = "returned"
    /\ \E i \in 1..Len(hist) : IsFormatLine(hist[i])
    /\ ret[1].format = Some([format |-> 4, rec_type |-> "Format"])

\* C18: a continuation line or an end line is matched and thrown away: the
\* header fields, the call sequence and the cache are after it what they
\* were before, and the parse goes on: an exit line that comes after such a
\* line still finds its entry and adds its record.
C18_DiscardedLines ==
    [][/\ (LineAtHand /\ KindOf(line) \in {5, 6}) =>
             /\ pc' = "read"
             /\ file_run' = file_run
             /\ entry_cache' = entry_cache
       /\ (/\ LineAtHand /\ KindOf(line) = 4
           /\ \E i \in 1..Len(hist) : KindOf(hist[i]) \in {5, 6}
           /\ EntryIdx(Digest(hist), IdOf(line)) # {}) =>
             /\ pc' = "read"
             /\ Len(file_run'.fn_records) = Len(file_run.fn_records) + 1]_vars

\* an end line between an entry and its exit, and the parse returned the call
C18_Witness ==
    /\ pc = "returned"
    /\ hist = <<EntryLine(0, 1), EndLine, ExitLine(1)>>
    /\ Len(ret[1].fn_records) = 1

\* the texts given to process_line are the first lines of the source, each
\* once and in the order of the source
WholeLinesInOrder ==
    /\ Len(hist) <= Len(fed)
    /\ hist = SubSeq(fed, 1, Len(hist))
\* the line of the source that has been begun and not yet processed
LineInProgress == IF Len(fed) > Len(hist) THEN fed[Len(fed)] ELSE <<>>

\* C19: every text given to classification is one source line, given once
\* and in the order of the file: the line buffer is empty at the start of
\* every read, also of the read after one that failed.
C19_BufferEmptyAtRead ==
    /\ WholeLinesInOrder
    /\ pc = "read" => line = <<>>

\* C19 as the code has it: the buffer is cleared after a line is processed and
\* not after a failed read; at the start of a read it holds what has been
\* read of the line in progress, the rest of that line is appended to it, and
\* the text processed is the whole line.
C19_BufferHoldsLineInProgress ==
    /\ WholeLinesInOrder
    /\ Len(fed) <= Len(hist) + 1
    /\ pc = "read" => line \o rest = LineInProgress
    /\ LineAtHand => line = LineInProgress

\* a line was processed, then a read failed after the first field of the
\* next line, which is in the buffer when the next read starts
C19_Witness ==
    /\ pc = "read"
    /\ Len(hist) >= 1
    /\ line # <<>> /\ rest # <<>>
    /\ errs >= 1

\* the exit lines among the texts h
ExitLinesIn(h) == {i \in 1..Len(h) : KindOf(h[i]) = 4}
\* process_line is given an exit line whose identifier is in the cache
PendingExitAtHand ==
    /\ LineDone /\ KindOf(line) = 4
    /\ IdOf(line) \in DOMAIN entry_cache

\* C20: the call sequence only grows at its end and only on exit lines: over
\* every step the sequence before is a prefix of the sequence after; it is
\* longer by one when the step processes an exit line whose identifier is
\* pending and by nothing otherwise; the records are never more than the exit
\* lines processed; an entry line changes nothing but the cache.
C20_AppendOnly ==
    [][/\ Len(file_run'.fn_records) =
             Len(file_run.fn_records) + (IF PendingExitAtHand THEN 1 ELSE 0)
       /\ SubSeq(file_run'.fn_records, 1, Len(file_run.fn_records))
             = file_run.fn_records
       /\ Len(file_run'.fn_records) <= Cardinality(ExitLinesIn(hist'))
       /\ (LineDone /\ KindOf(line) = 3) => file_run' = file_run]_vars

\* an exit line with nothing pending, then an entry line and two exit lines
\* of its identifier: two records from three exit lines
C20_Witness ==
    /\ pc = "returned"
    /\ hist = <<ExitLine(2), EntryLine(0, 1), ExitLine(1), ExitLine(1)>>
    /\ Len(ret[1].fn_records) = 2

====
